---- MODULE Spec2Model ----
(***************************************************************************)
(* Shared-expense backend (backend/main.py, models.py, schemas.py): the    *)
(* users, rooms and data (invoice) tables, the request handlers that read  *)
(* and write them, and the balance computation of get_balances_in_room.    *)
(*                                                                         *)
(* Conventions of the model                                                *)
(*  - A Python dict key is a tagged pair: IntKey(n) is the int n and       *)
(*    StrKey(n) the str of its decimal digits.  The two never compare      *)
(*    equal, as in Python (2 != "2").  A JSON column stores an object, so  *)
(*    what is read back from Data.user_sums has str keys.                  *)
(*  - A Python float is a pair <<h, l>> standing for h * 2^53 + l with l   *)
(*    small; FAdd and FSub round a sum to the nearest double, ties to      *)
(*    even, so <<0, l>> is the integer l (exact) and <<1, 0>> is 2^53.     *)
(*  - resp is the outcome of the last handler call: its name, arguments,   *)
(*    the status of what the handler raised or 200 when it returned, and   *)
(*    the value it returned.                                               *)
(***************************************************************************)
EXTENDS Integers, Sequences, FiniteSets, TLC

VARIABLES users, rooms, data, resp

vars == <<users, rooms, data, resp>>

store == <<users, rooms, data>>

\* ------------------------------------------------------------ bounds

\* The longest invoice id list a request gives a room.
MaxList == 2

\* The model's pools of ids: the users, the stored invoices, and the rooms
\* the requests name.
UserIds == {1, 2}

InvoiceIds == {1, 2}

RoomRefs == {1}

\* ---------------------------------------------------- keys and floats

IntKey(n) == <<"int", n>>

StrKey(n) == <<"str", n>>

\* json.dumps of a dict: every key becomes its str.
JsonDumps(m) == [k \in {StrKey(j[2]) : j \in DOMAIN m} |->
                   LET src == CHOOSE j \in DOMAIN m : j[2] = k[2] IN m[src]]

\* The integer l as a float.
D(l) == <<0, l>>

\* 2^53 as a float: the least double whose successor is 2 away.
Big == <<1, 0>>

RECURSIVE P2(_)
\* The largest power of two that is <= h, for h >= 1.
P2(h) == IF h <= 1 THEN 1 ELSE 2 * P2(h \div 2)

\* The spacing of the doubles around h * 2^53 + l, for h >= 1 and l small.
Ulp(h, l) == IF l >= 0 \/ P2(h) # h THEN 2 * P2(h) ELSE P2(h)

\* l rounded to a multiple of u, a tie going to the even multiple.
RoundTo(l, u) ==
    LET q == l \div u
        r == l % u
    IN  IF 2 * r < u THEN q * u
        ELSE IF 2 * r > u THEN (q + 1) * u
        ELSE IF q % 2 = 0 THEN q * u ELSE (q + 1) * u

\* The double nearest to h * 2^53 + l (round to nearest, ties to even).
RoundD(h, l) ==
    IF h = 0 THEN <<0, l>>
    ELSE IF h > 0 THEN <<h, RoundTo(l, Ulp(h, l))>>
    ELSE <<h, -RoundTo(-l, Ulp(-h, -l))>>

FAdd(a, b) == RoundD(a[1] + b[1], a[2] + b[2])

FSub(a, b) == RoundD(a[1] - b[1], a[2] - b[2])

\* a > 0 on floats.
FPos(a) == a[1] > 0 \/ (a[1] = 0 /\ a[2] > 0)

\* ------------------------------------------------------------- store

\* An optional request field: <<>> is None, <<v>> is the value v.
None == <<>>

Some(v) == <<v>>

\* The fields pydantic keeps on a parsed DataCreate; reading any other
\* attribute of the parsed object raises AttributeError.
DataCreateFields == {"name", "description", "date", "total", "user_sums", "creator_id"}

HasAttr(fields, a) == a \in fields

\* The empty table.
NoRows == <<>>

\* An integer primary key without AUTOINCREMENT: the largest id in use, plus 1.
NextId(ids) == IF ids = {} THEN 1 ELSE (CHOOSE m \in ids : \A n \in ids : n <= m) + 1

\* A column of integer affinity compared with a key of either type: the
\* comparison is on the number (User.id == "2" finds user 2).
SqlId(k) == k[2]

Insert(table, id, row) == [i \in DOMAIN table \cup {id} |-> IF i = id THEN row ELSE table[i]]

Delete(table, id) == [i \in DOMAIN table \ {id} |-> table[i]]

Response(op, arg, status, body) == [op |-> op, arg |-> arg, status |-> status, body |-> body]

\* The values the requests and the stored rows are drawn from.
Amounts == {D(1), D(2)}

Totals == {D(i) : i \in InvoiceIds}

RoomNames == {"room"}

InvoiceNames == {"inv"}

\* Dict[int, float] of a request: int keys.
RequestSums == UNION {[{IntKey(u) : u \in S} -> Amounts] : S \in SUBSET UserIds}

\* The user_sums of a stored row: a JSON object, str keys.
StoredSums == UNION {[{StrKey(u) : u \in S} -> Amounts] : S \in SUBSET UserIds}

\* The row with id i when the service starts: any creator, the total i, and
\* every user's share 1.
SeedRows(i) ==
    {[name |-> "inv", total |-> D(i), user_sums |-> [k \in {StrKey(u) : u \in UserIds} |-> D(1)],
      creator_id |-> c, status |-> FALSE] : c \in UserIds}

\* Lists of invoice ids of length at most MaxList.
IdLists == UNION {[1..n -> InvoiceIds] : n \in 0..MaxList}

TypeOK ==
    /\ users \subseteq UserIds
    /\ DOMAIN rooms \subseteq RoomRefs
    /\ \A r \in DOMAIN rooms :
          /\ rooms[r].name \in RoomNames
          /\ rooms[r].participants \subseteq users
          /\ rooms[r].invoices \in IdLists
    /\ DOMAIN data \subseteq InvoiceIds
    /\ \A i \in DOMAIN data :
          /\ data[i].total \in Totals
          /\ data[i].user_sums \in StoredSums
          /\ data[i].creator_id \in UserIds
          /\ data[i].status \in BOOLEAN
    /\ resp.status \in {200, 400, 404, 500}

\* No room yet, and the rows the data table holds: no handler inserts an
\* invoice (create_invoice fails before its insert), so the invoices the
\* handlers work on are rows already in the store the sessions are bound to.
\* Their creators exist (creator_id references users.id).
Init ==
    /\ data \in {d \in [InvoiceIds -> UNION {SeedRows(i) : i \in InvoiceIds}] :
                    \A i \in InvoiceIds : d[i] \in SeedRows(i)}
    /\ users = {data[i].creator_id : i \in InvoiceIds}
    /\ rooms = NoRows
    /\ resp = Response("start", <<>>, 200, <<>>)

\* ----------------------------------------------------------- rooms

\* POST /api/rooms/
create_room(participants) ==
    /\ NextId(DOMAIN rooms) \in RoomRefs
    /\ LET id == NextId(DOMAIN rooms)
           db_room == [name |-> "room", participants |-> participants, invoices |-> <<>>]
       IN  /\ users' = users \cup participants
           /\ rooms' = Insert(rooms, id, db_room)
           /\ resp' = Response("create_room", <<id>>, 200, db_room)
    /\ UNCHANGED data

\* GET /api/room/{room_id}
get_room(room_id) ==
    /\ resp' = IF room_id \notin DOMAIN rooms
               THEN Response("get_room", <<room_id>>, 404, <<>>)
               ELSE Response("get_room", <<room_id>>, 200, rooms[room_id])
    /\ UNCHANGED store

\* The keys of the user_sums of the invoices of the list that resolve.
SyncedKeys(invoices) ==
    UNION {DOMAIN data[invoices[n]].user_sums :
             n \in {m \in DOMAIN invoices : invoices[m] \in DOMAIN data}}

\* PUT /api/room/{room_id}
update_room(room_id, room) ==
    IF room_id \notin DOMAIN rooms
    THEN /\ resp' = Response("update_room", <<room_id>>, 404, <<>>)
         /\ UNCHANGED store
    ELSE LET db_room == rooms[room_id]
             named == IF room.name # None
                      THEN [db_room EXCEPT !.name = room.name[1]] ELSE db_room
             db_participants == IF room.participant_ids # None
                                THEN room.participant_ids[1] \cap users ELSE {}
         IN  IF room.participant_ids # None /\ db_participants = {}
             THEN \* raised before any commit: the session's changes are dropped
                  /\ resp' = Response("update_room", <<room_id>>, 400, <<>>)
                  /\ UNCHANGED store
             ELSE LET parted == IF room.participant_ids # None
                                THEN [named EXCEPT !.participants = db_participants]
                                ELSE named
                      synced == IF room.invoices # None
                                THEN {SqlId(k) : k \in SyncedKeys(room.invoices[1])}
                                ELSE {}
                      listed == IF room.invoices # None
                                THEN [parted EXCEPT !.invoices = room.invoices[1],
                                                    !.participants = @ \cup synced]
                                ELSE parted
                  IN  /\ users' = users \cup synced
                      /\ rooms' = [rooms EXCEPT ![room_id] = listed]
                      /\ data' = data
                      /\ resp' = Response("update_room", <<room_id>>, 200, listed)

\* DELETE /api/room/{room_id}
delete_room(room_id) ==
    IF room_id \notin DOMAIN rooms
    THEN /\ resp' = Response("delete_room", <<room_id>>, 404, <<>>)
         /\ UNCHANGED store
    ELSE /\ rooms' = Delete(rooms, room_id)
         /\ resp' = Response("delete_room", <<room_id>>, 200, <<>>)
         /\ UNCHANGED <<users, data>>

\* -------------------------------------------------------- invoices

\* POST /api/invoice/
\* invoice is the parsed DataCreate; room_id is the room the request body
\* names, which is no field of DataCreate.
create_invoice(invoice, room_id) ==
    LET arg == <<invoice.creator_id, room_id>> IN
    IF invoice.creator_id \notin users
    THEN /\ resp' = Response("create_invoice", arg, 404, <<>>)
         /\ UNCHANGED store
    ELSE LET user_ids == DOMAIN invoice.user_sums
             \* each missing user is added and committed inside the loop
             created == users \cup {SqlId(k) : k \in user_ids}
         IN  IF ~HasAttr(DataCreateFields, "room_id")
             THEN \* invoice.room_id raises AttributeError
                  /\ users' = created
                  /\ resp' = Response("create_invoice", arg, 500, <<>>)
                  /\ UNCHANGED <<rooms, data>>
             ELSE IF room_id \notin DOMAIN rooms
             THEN /\ users' = created
                  /\ resp' = Response("create_invoice", arg, 404, <<>>)
                  /\ UNCHANGED <<rooms, data>>
             ELSE LET id == NextId(DOMAIN data)
                      new_invoice == [name |-> invoice.name,
                                      total |-> invoice.total,
                                      user_sums |-> JsonDumps(invoice.user_sums),
                                      creator_id |-> invoice.creator_id,
                                      status |-> FALSE]
                  IN  /\ users' = created
                      /\ rooms' = [rooms EXCEPT ![room_id].participants =
                                      @ \cup {SqlId(k) : k \in user_ids}]
                      /\ data' = Insert(data, id, new_invoice)
                      /\ resp' = Response("create_invoice", arg, 200, new_invoice)

\* GET /api/invoice/{invoice_id}
\* The 404 is raised inside the try block, whose except clause catches every
\* Exception and raises a 400 in its place.
get_invoice(invoice_id) ==
    /\ resp' = IF invoice_id \notin DOMAIN data
               THEN Response("get_invoice", <<invoice_id>>, 400, <<>>)
               ELSE Response("get_invoice", <<invoice_id>>, 200, data[invoice_id])
    /\ UNCHANGED store

\* PUT /api/invoice/{invoice_id}
update_invoice(invoice_id, invoice) ==
    IF invoice_id \notin DOMAIN data
    THEN /\ resp' = Response("update_invoice", <<invoice_id>>, 400, <<>>)
         /\ UNCHANGED store
    ELSE IF ~HasAttr(DataCreateFields, "creator_name")
    THEN \* invoice.creator_name raises AttributeError before the commit: the
         \* assignments made on the row so far are dropped with the session
         /\ resp' = Response("update_invoice", <<invoice_id>>, 400, <<>>)
         /\ UNCHANGED store
    ELSE LET db_invoice == [data[invoice_id] EXCEPT
                               !.name = invoice.name,
                               !.total = invoice.total,
                               !.user_sums = JsonDumps(invoice.user_sums)]
         IN  /\ data' = [data EXCEPT ![invoice_id] = db_invoice]
             /\ resp' = Response("update_invoice", <<invoice_id>>, 200, db_invoice)
             /\ UNCHANGED <<users, rooms>>

\* DELETE /api/invoice/{invoice_id}
\* The row is deleted; no room's invoices list is touched.
delete_invoice(invoice_id) ==
    IF invoice_id \notin DOMAIN data
    THEN /\ resp' = Response("delete_invoice", <<invoice_id>>, 400, <<>>)
         /\ UNCHANGED store
    ELSE /\ data' = Delete(data, invoice_id)
         /\ resp' = Response("delete_invoice", <<invoice_id>>, 200, data[invoice_id])
         /\ UNCHANGED <<users, rooms>>

\* request_close_invoice closing the invoice it is asked about.
request_close_invoice_closing(invoice_id) ==
    IF invoice_id \notin DOMAIN data \/ data[invoice_id].status
    THEN /\ resp' = Response("request_close_invoice", <<invoice_id>>, 400, <<>>)
         /\ UNCHANGED store
    ELSE /\ data' = [data EXCEPT ![invoice_id].status = TRUE]
         /\ resp' = Response("request_close_invoice", <<invoice_id>>, 200, data'[invoice_id])
         /\ UNCHANGED <<users, rooms>>

\* PUT /api/invoice/{invoice_id}/request-close
request_close_invoice(invoice_id) ==
    /\ resp' = IF invoice_id \notin DOMAIN data
               THEN Response("request_close_invoice", <<invoice_id>>, 400, <<>>)
               ELSE IF data[invoice_id].status
               THEN Response("request_close_invoice", <<invoice_id>>, 400, <<>>)
               ELSE Response("request_close_invoice", <<invoice_id>>, 200, data[invoice_id])
    /\ UNCHANGED store

\* confirm_close_invoice without its "if invoice.status" check.
confirm_close_invoice_unchecked(invoice_id) ==
    IF invoice_id \notin DOMAIN data
    THEN /\ resp' = Response("confirm_close_invoice", <<invoice_id>>, 400, <<>>)
         /\ UNCHANGED store
    ELSE /\ data' = [data EXCEPT ![invoice_id].status = TRUE]
         /\ resp' = Response("confirm_close_invoice", <<invoice_id>>, 200, data'[invoice_id])
         /\ UNCHANGED <<users, rooms>>

\* PUT /api/invoice/{invoice_id}/confirm-close
confirm_close_invoice(invoice_id) ==
    IF invoice_id \notin DOMAIN data
    THEN /\ resp' = Response("confirm_close_invoice", <<invoice_id>>, 400, <<>>)
         /\ UNCHANGED store
    ELSE IF data[invoice_id].status
    THEN /\ resp' = Response("confirm_close_invoice", <<invoice_id>>, 400, <<>>)
         /\ UNCHANGED store
    ELSE /\ data' = [data EXCEPT ![invoice_id].status = TRUE]
         /\ resp' = Response("confirm_close_invoice", <<invoice_id>>, 200, data'[invoice_id])
         /\ UNCHANGED <<users, rooms>>

\* --------------------------------------------------------- queries

RECURSIVE TotalLoopStopping(_, _, _)
\* TotalLoop ending at the first id with no row instead of passing over it.
TotalLoopStopping(total_sum, invoices, rows) ==
    IF invoices = <<>> \/ Head(invoices) \notin rows THEN total_sum
    ELSE TotalLoopStopping(FAdd(total_sum, data[Head(invoices)].total), Tail(invoices), rows)

RECURSIVE TotalLoop(_, _, _)
\* The loop "for invoice_id in room.invoices: ... total_sum += invoice.total"
\* from total_sum; rows are the ids the loop's query finds a row for.
TotalLoop(total_sum, invoices, rows) ==
    IF invoices = <<>> THEN total_sum
    ELSE LET invoice_id == Head(invoices)
         IN  TotalLoop(IF invoice_id \in rows
                       THEN FAdd(total_sum, data[invoice_id].total)
                       ELSE total_sum,
                       Tail(invoices), rows)

\* GET /api/room/{room_id}/total_invoices
get_total_invoices(room_id) ==
    /\ resp' = IF room_id \notin DOMAIN rooms
               THEN Response("get_total_invoices", <<room_id>>, 404, <<>>)
               ELSE Response("get_total_invoices", <<room_id>>, 200,
                             TotalLoop(D(0), rooms[room_id].invoices, DOMAIN data))
    /\ UNCHANGED store

RECURSIVE SumRows(_, _)
\* sum(invoice.total for invoice in invoices) over the rows with the ids, in
\* the order of the ids.
SumRows(total_sum, ids) ==
    IF ids = {} THEN total_sum
    ELSE LET i == CHOOSE m \in ids : \A n \in ids : m <= n
         IN  SumRows(FAdd(total_sum, data[i].total), ids \ {i})

\* GET /api/user/{user_id}/total_invoices
get_total_invoices_by_user(user_id) ==
    /\ resp' = Response("get_total_invoices_by_user", <<user_id>>, 200,
                        SumRows(D(0), {i \in DOMAIN data : data[i].creator_id = user_id}))
    /\ UNCHANGED store

\* GET /api/room/{room_id}/user/{user_id}/total_invoices
get_total_invoices_by_user_in_room(room_id, user_id) ==
    /\ resp' = IF room_id \notin DOMAIN rooms
               THEN Response("get_total_invoices_by_user_in_room", <<room_id, user_id>>, 404, <<>>)
               ELSE Response("get_total_invoices_by_user_in_room", <<room_id, user_id>>, 200,
                             TotalLoop(D(0), rooms[room_id].invoices,
                                       {i \in DOMAIN data : data[i].creator_id = user_id}))
    /\ UNCHANGED store

RECURSIVE BalanceLoop(_, _, _)
\* The loop of get_balance_between_users_in_room for one user: the path
\* parameter is an int, looked up among the keys of the stored user_sums.
BalanceLoop(balance, invoices, user_key) ==
    IF invoices = <<>> THEN balance
    ELSE LET invoice_id == Head(invoices)
             found == invoice_id \in DOMAIN data
                      /\ user_key \in DOMAIN data[invoice_id].user_sums
         IN  BalanceLoop(IF found THEN FAdd(balance, data[invoice_id].user_sums[user_key])
                         ELSE balance,
                         Tail(invoices), user_key)

\* GET /api/room/{room_id}/balance/{user1_id}/{user2_id}
get_balance_between_users_in_room(room_id, user1_id, user2_id) ==
    /\ resp' = IF room_id \notin DOMAIN rooms
               THEN Response("get_balance_between_users_in_room",
                             <<room_id, user1_id, user2_id>>, 404, <<>>)
               ELSE Response("get_balance_between_users_in_room",
                             <<room_id, user1_id, user2_id>>, 200,
                             FSub(BalanceLoop(D(0), rooms[room_id].invoices, IntKey(user1_id)),
                                  BalanceLoop(D(0), rooms[room_id].invoices, IntKey(user2_id))))
    /\ UNCHANGED store

\* GET /api/users/{user_id}
get_user(user_id) ==
    /\ resp' = IF user_id \notin users
               THEN Response("get_user", <<user_id>>, 404, <<>>)
               ELSE Response("get_user", <<user_id>>, 200, <<user_id>>)
    /\ UNCHANGED store

\* ---------------------------------------------------------- ledger

\* debts.get(debtor, {}).get(creditor, 0): debts maps the pairs
\* <<debtor key, creditor key>> that have an entry to their amount.
DebtOf(debts, debtor, creditor) ==
    IF <<debtor, creditor>> \in DOMAIN debts THEN debts[<<debtor, creditor>>] ELSE D(0)

\* One invoice of the loop: "if user_id != creator_id:
\* debts[user_id][creator_id] += amount" for every item of user_sums.  The
\* user_id is a key of the stored JSON object and creator_id the int column.
AddInvoice(debts, invoice) ==
    LET creator_id == IntKey(invoice.creator_id)
        user_sums == invoice.user_sums
        cells == {<<user_id, creator_id>> : user_id \in {k \in DOMAIN user_sums : k # creator_id}}
    IN  [p \in DOMAIN debts \cup cells |->
           IF p \in cells THEN FAdd(DebtOf(debts, p[1], p[2]), user_sums[p[1]])
           ELSE debts[p]]

RECURSIVE DebtLoop(_, _)
\* The loop over room.invoices that collects the gross debts.
DebtLoop(debts, invoices) ==
    IF invoices = <<>> THEN debts
    ELSE LET invoice_id == Head(invoices)
             skip == invoice_id \notin DOMAIN data
                     \/ DOMAIN data[invoice_id].user_sums = {}
         IN  DebtLoop(IF skip THEN debts ELSE AddInvoice(debts, data[invoice_id]),
                      Tail(invoices))

\* net_amount for a pair of participant ids.
NetAmount(debts, debtor_id, creditor_id) ==
    FSub(DebtOf(debts, debtor_id, creditor_id), DebtOf(debts, creditor_id, debtor_id))

\* Owes with "net_amount >= 0" in place of "net_amount > 0".
OwesOrSettled(debts, debtor_id, creditor_id) ==
    \/ FPos(NetAmount(debts, debtor_id, creditor_id))
    \/ NetAmount(debts, debtor_id, creditor_id) = D(0)

\* "if net_amount > 0".
Owes(debts, debtor_id, creditor_id) ==
    FPos(NetAmount(debts, debtor_id, creditor_id))

\* simplified_debts, then result: debtor -> creditor -> net amount over the
\* participants' ids, a debtor kept when its inner dict is not empty.
Simplify(debts, participants) ==
    LET creditors(d) == {c \in participants : c # d /\ Owes(debts, d, c)}
        simplified_debts ==
            [d \in {x \in participants : creditors(x) # {}} |->
               [c \in creditors(d) |-> NetAmount(debts, d, c)]]
    IN  [d \in {x \in DOMAIN simplified_debts : DOMAIN simplified_debts[x] # {}} |->
           simplified_debts[d]]

\* The gross debts get_balances_in_room collects for a room.
RoomDebts(room_id) == DebtLoop(<<>>, rooms[room_id].invoices)

\* GET /api/room/{room_id}/balances
get_balances_in_room(room_id) ==
    /\ resp' = IF room_id \notin DOMAIN rooms
               THEN Response("get_balances_in_room", <<room_id>>, 404, <<>>)
               ELSE Response("get_balances_in_room", <<room_id>>, 200,
                             Simplify(RoomDebts(room_id),
                                      {IntKey(u) : u \in rooms[room_id].participants}))
    /\ UNCHANGED store

\* ------------------------------------------------------ the service

UpdateRequests ==
    [name : {None} \cup {Some(n) : n \in RoomNames},
     participant_ids : {None} \cup {Some(S) : S \in SUBSET UserIds},
     invoices : {None} \cup {Some(l) : l \in IdLists}]

InvoiceRequests ==
    [name : InvoiceNames, total : {D(1)}, user_sums : RequestSums, creator_id : UserIds]

Next ==
    \/ \E participants \in SUBSET UserIds : create_room(participants)
    \/ \E room_id \in RoomRefs : get_room(room_id)
    \/ \E room_id \in RoomRefs, room \in UpdateRequests : update_room(room_id, room)
    \/ \E room_id \in RoomRefs : delete_room(room_id)
    \/ \E invoice \in InvoiceRequests, room_id \in RoomRefs : create_invoice(invoice, room_id)
    \/ \E invoice_id \in InvoiceIds : get_invoice(invoice_id)
    \/ \E invoice_id \in InvoiceIds, invoice \in InvoiceRequests :
          update_invoice(invoice_id, invoice)
    \/ \E invoice_id \in InvoiceIds : delete_invoice(invoice_id)
    \/ \E invoice_id \in InvoiceIds : request_close_invoice(invoice_id)
    \/ \E invoice_id \in InvoiceIds : confirm_close_invoice(invoice_id)
    \/ \E room_id \in RoomRefs : get_total_invoices(room_id)
    \/ \E user_id \in UserIds : get_total_invoices_by_user(user_id)
    \/ \E room_id \in RoomRefs, user_id \in UserIds :
          get_total_invoices_by_user_in_room(room_id, user_id)
    \/ \E room_id \in RoomRefs, user1_id \in UserIds, user2_id \in UserIds :
          get_balance_between_users_in_room(room_id, user1_id, user2_id)
    \/ \E room_id \in RoomRefs : get_balances_in_room(room_id)
    \/ \E user_id \in UserIds : get_user(user_id)

Spec == Init /\ [][Next]_vars

\* --------------------------------------- the ledger on stored rooms

MaxLedgerList == 2

\* The ids a room's list may hold: those of the stored invoices and one with
\* no row, as a deleted invoice leaves behind.
ListedIds == InvoiceIds \cup {3}

LedgerLists == UNION {[1..n -> ListedIds] : n \in 0..MaxLedgerList}

\* Any stored rows with any shares, and one room with any participants and
\* any list of invoice ids: the states the balance queries are asked in.
LedgerInit ==
    /\ data \in [InvoiceIds -> [name : InvoiceNames, total : {D(1)}, user_sums : StoredSums,
                                creator_id : UserIds, status : {FALSE}]]
    /\ users = UserIds
    /\ \E participants \in SUBSET UserIds, invoices \in LedgerLists :
          rooms = Insert(NoRows, 1, [name |-> "room", participants |-> participants,
                                     invoices |-> invoices])
    /\ resp = Response("start", <<>>, 200, <<>>)

LedgerNext ==
    \/ \E room_id \in RoomRefs : get_balances_in_room(room_id)
    \/ \E room_id \in RoomRefs, user1_id \in UserIds, user2_id \in UserIds :
          get_balance_between_users_in_room(room_id, user1_id, user2_id)
    \/ \E room_id \in RoomRefs : get_total_invoices(room_id)

SpecLedger == LedgerInit /\ [][LedgerNext]_vars

\* ------------------------------------- the ledger on permuted lists

PermLen == 3

\* The lists with the same ids as l, in every order.
Perms(l) ==
    {[n \in DOMAIN l |-> l[f[n]]] :
       f \in {g \in [DOMAIN l -> DOMAIN l] : \A a, b \in DOMAIN l : g[a] = g[b] => a = b}}

PermSums == UNION {[{StrKey(u) : u \in S} -> {D(1), Big}] : S \in SUBSET UserIds}

\* Rows whose shares are 1 or 2^53, and one room of all users that lists
\* PermLen ids.
PermInit ==
    /\ data \in [InvoiceIds -> [name : InvoiceNames, total : {D(1)}, user_sums : PermSums,
                                creator_id : UserIds, status : {FALSE}]]
    /\ users = UserIds
    /\ \E invoices \in [1..PermLen -> InvoiceIds] :
          rooms = Insert(NoRows, 1, [name |-> "room", participants |-> UserIds,
                                     invoices |-> invoices])
    /\ resp = Response("start", <<>>, 200, <<>>)

PermNext ==
    \/ \E room_id \in DOMAIN rooms : \E invoices \in Perms(rooms[room_id].invoices) :
          update_room(room_id, [name |-> None, participant_ids |-> None,
                                invoices |-> Some(invoices)])
    \/ \E room_id \in DOMAIN rooms : get_balances_in_room(room_id)

SpecPerm == PermInit /\ [][PermNext]_vars

\* ------------------------------------------------------- properties

RECURSIVE SumOver(_, _)
\* The sum of f[n] over the n of a finite set of integers.
SumOver(S, f) ==
    IF S = {} THEN 0
    ELSE LET n == CHOOSE m \in S : TRUE IN f[n] + SumOver(S \ {n}, f)

\* What user u owes user c by the stored invoices an id list names: the sum
\* of u's share over the entries of the list that resolve to an invoice
\* created by c, an id listed twice counting twice.
GrossOwed(invoices, u, c) ==
    LET share(i) == {k \in DOMAIN data[i].user_sums : SqlId(k) = u}
        entries == {n \in DOMAIN invoices :
                      /\ invoices[n] \in DOMAIN data
                      /\ data[invoices[n]].creator_id = c
                      /\ share(invoices[n]) # {}}
    IN  SumOver(entries,
                [n \in entries |->
                   LET i == invoices[n]
                   IN  data[i].user_sums[CHOOSE k \in share(i) : TRUE][2]])

NetOwed(invoices, u, c) == GrossOwed(invoices, u, c) - GrossOwed(invoices, c, u)

\* The room a balances response in resp was computed for.
Balanced == resp.op = "get_balances_in_room" /\ resp.status = 200

\* result[debtor][creditor] exists, for two user ids.
HasEntry(result, debtor, creditor) ==
    /\ IntKey(debtor) \in DOMAIN result
    /\ IntKey(creditor) \in DOMAIN result[IntKey(debtor)]

\* Gross debts with every debtor key turned into the int of the same user:
\* the debts as the netting step would find them under the participants' ids.
ByUserId(debts) ==
    [p \in {<<IntKey(SqlId(q[1])), q[2]>> : q \in DOMAIN debts} |->
       debts[CHOOSE q \in DOMAIN debts : SqlId(q[1]) = SqlId(p[1]) /\ q[2] = p[2]]]

\* C1: the mapping get_balances_in_room returns never holds both an entry
\* debtor A -> creditor B and an entry debtor B -> creditor A; nor does the
\* netting step on the room's gross debts looked up by user id.
C1_MutualExclusion ==
    Balanced =>
        LET room == rooms[resp.arg[1]]
            netted == Simplify(ByUserId(RoomDebts(resp.arg[1])),
                               {IntKey(u) : u \in room.participants})
        IN  \A a, b \in UserIds :
               /\ ~(HasEntry(resp.body, a, b) /\ HasEntry(resp.body, b, a))
               /\ ~(HasEntry(netted, a, b) /\ HasEntry(netted, b, a))

\* C1 witness: balances were computed for a room of users 1 and 2 whose list
\* names an invoice of 1 with a share of 2 and an invoice of 2 with a
\* different share of 1.
C1_Witness ==
    /\ Balanced
    /\ {1, 2} \subseteq rooms[resp.arg[1]].participants
    /\ GrossOwed(rooms[resp.arg[1]].invoices, 2, 1) > 0
    /\ GrossOwed(rooms[resp.arg[1]].invoices, 1, 2) > 0
    /\ NetOwed(rooms[resp.arg[1]].invoices, 1, 2) # 0

\* C2: for every ordered pair of distinct participants the result holds
\* result[debtor][creditor] exactly when what debtor owes creditor less what
\* creditor owes debtor is > 0, the value is that net, and no debtor maps to
\* an empty dict.
C2_NettingResult ==
    Balanced =>
        LET room == rooms[resp.arg[1]] IN
        /\ \A d, c \in room.participants :
              d # c =>
                 /\ HasEntry(resp.body, d, c) <=> NetOwed(room.invoices, d, c) > 0
                 /\ HasEntry(resp.body, d, c) =>
                       resp.body[IntKey(d)][IntKey(c)] = D(NetOwed(room.invoices, d, c))
        /\ \A k \in DOMAIN resp.body : DOMAIN resp.body[k] # {}

\* C3: in the gross debts collected for a room, the share of a user other
\* than the invoice's creator is added to that user's debt to the creator, so
\* that the debt of u to c is the sum of u's shares over the listed invoices
\* of c, and the creator's own share is never recorded as a debt.
C3_Aggregation ==
    Balanced =>
        LET r == resp.arg[1]
            debts == RoomDebts(r)
        IN  /\ \A p \in DOMAIN debts : SqlId(p[1]) # SqlId(p[2])
            /\ \A u, c \in UserIds :
                  u # c =>
                     \/ /\ GrossOwed(rooms[r].invoices, u, c) = 0
                        /\ \A p \in DOMAIN debts :
                              SqlId(p[1]) = u /\ SqlId(p[2]) = c => debts[p] = D(0)
                     \/ \E p \in DOMAIN debts :
                           /\ SqlId(p[1]) = u /\ SqlId(p[2]) = c
                           /\ debts[p] = D(GrossOwed(rooms[r].invoices, u, c))

\* C4: the gross debts between the users of a room are the same for every
\* order of its invoice id list.
C4_Commutativity ==
    Balanced =>
        LET r == resp.arg[1] IN
        \A invoices \in Perms(rooms[r].invoices) :
            \A p \in DOMAIN RoomDebts(r) :
                SqlId(p[1]) # SqlId(p[2]) =>
                    DebtOf(DebtLoop(<<>>, invoices), p[1], p[2]) = RoomDebts(r)[p]

\* The response of a call of op on the id.
Called(r, op, id) == r.op = op /\ r.arg = <<id>>

\* C5: confirm_close on an invoice that is already closed fails with the
\* status of "already closed" (400) and changes nothing in the store.
C5_ConfirmCloseOnClosed ==
    [][\A i \in InvoiceIds :
          (i \in DOMAIN data /\ data[i].status /\ Called(resp', "confirm_close_invoice", i))
             => (resp'.status = 400 /\ store' = store)]_vars

\* C5 witness: confirm_close was refused on an invoice that is closed.
C5_Witness ==
    /\ resp.op = "confirm_close_invoice"
    /\ resp.status = 400
    /\ resp.arg[1] \in DOMAIN data
    /\ data[resp.arg[1]].status

\* C6: the status of an existing invoice changes only by confirm_close, and
\* only from open to closed; request_close changes nothing in the store; a
\* closed invoice is never open again.
C6_Lifecycle ==
    [][/\ \A i \in DOMAIN data \cap DOMAIN data' :
             data'[i].status # data[i].status =>
                /\ Called(resp', "confirm_close_invoice", i)
                /\ ~data[i].status
                /\ data'[i].status
       /\ resp'.op = "request_close_invoice" => store' = store
       /\ \A i \in DOMAIN data \cap DOMAIN data' : data[i].status => data'[i].status]_vars

\* C6 witness: an invoice was closed by confirm_close.
C6_Witness ==
    /\ resp.op = "confirm_close_invoice"
    /\ resp.status = 200
    /\ data[resp.arg[1]].status

\* The exact sum of the totals of the entries of an id list that resolve.
ResolvedTotal(invoices) ==
    LET entries == {n \in DOMAIN invoices : invoices[n] \in DOMAIN data}
    IN  SumOver(entries, [n \in entries |-> data[invoices[n]].total[2]])

\* C7: for an existing room get_total_invoices returns the sum of total over
\* exactly the ids of the room's list that resolve, and raises nothing when
\* some do not.
C7_SkipDangling ==
    (resp.op = "get_total_invoices" /\ resp.arg[1] \in DOMAIN rooms) =>
        /\ resp.status = 200
        /\ resp.body = D(ResolvedTotal(rooms[resp.arg[1]].invoices))

\* C7 witness: the total was returned for a room whose list names a deleted
\* invoice and one that resolves.
C7_Witness ==
    /\ resp.op = "get_total_invoices"
    /\ resp.status = 200
    /\ \E n, m \in DOMAIN rooms[resp.arg[1]].invoices :
          /\ rooms[resp.arg[1]].invoices[n] \notin DOMAIN data
          /\ rooms[resp.arg[1]].invoices[m] \in DOMAIN data
    /\ resp.body # D(0)

RoomLookups ==
    {"get_room", "update_room", "delete_room", "get_total_invoices",
     "get_total_invoices_by_user_in_room", "get_balance_between_users_in_room",
     "get_balances_in_room"}

InvoiceLookups ==
    {"get_invoice", "update_invoice", "delete_invoice", "request_close_invoice",
     "confirm_close_invoice"}

\* C8: an operation that looks a room or an invoice up by an id that does not
\* resolve fails with the status of not found (404), which is not the status
\* of an invalid state or input (400), and leaves the store unchanged.
C8_NotFound ==
    [][/\ (resp'.op \in RoomLookups /\ resp'.arg[1] \notin DOMAIN rooms)
             => (resp'.status = 404 /\ store' = store)
       /\ (resp'.op \in InvoiceLookups /\ resp'.arg[1] \notin DOMAIN data)
             => (resp'.status = 404 /\ store' = store)]_vars

\* C9: a create_invoice that fails leaves the store as it was: no user
\* created, no participant added, no invoice kept.
C9_AllOrNothing ==
    [][(resp'.op = "create_invoice" /\ resp'.status # 200) => store' = store]_vars

C11_MutableUntilClosed ==
    [][\A invoice_id \in DOMAIN data, invoice \in InvoiceRequests :
          update_invoice(invoice_id, invoice) =>
             /\ invoice_id \in DOMAIN data'
             /\ IF data[invoice_id].status
                THEN /\ data'[invoice_id].name = data[invoice_id].name
                     /\ data'[invoice_id].total = data[invoice_id].total
                     /\ data'[invoice_id].user_sums = data[invoice_id].user_sums
                     /\ data'[invoice_id].creator_id = data[invoice_id].creator_id
                ELSE /\ data'[invoice_id].name = invoice.name
                     /\ data'[invoice_id].total = invoice.total
                     /\ data'[invoice_id].user_sums = JsonDumps(invoice.user_sums)]_vars

====
